---- MODULE Spec2Model ----
(***************************************************************************)
(* Model of the edge device of the telemetry pipeline                      *)
(* (src/edge-device.py): the OPC UA trigger handler, process_telemetry     *)
(* with its process-wide telemetry_buffer, and send_to_cloud.              *)
(*                                                                         *)
(* Python values are tagged records ([type |-> "float", val |-> 5],        *)
(* [type |-> "str", val |-> ...], [type |-> "NoneType"]); a str that is    *)
(* parsed by the code (Temperatures) is a sequence of one-character        *)
(* strings, so that split, strip and float are computed and can fail.      *)
(* Floats are exact rationals: an input float is an integer n, a mean is   *)
(* the reduced fraction <<num, den>>.                                      *)
(*                                                                         *)
(* Scaling.  The source averages BUFFER_SIZE = 10 snapshots of 100 x 100   *)
(* = 10,000 cells.  The model keeps the code's comparisons against these   *)
(* sizes but checks them for the small sizes below.                        *)
(***************************************************************************)
EXTENDS Integers, Sequences, FiniteSets, Bags, TLC

\* ---------------------------------------------------------------- bounds
\* window length (10 in edge-device.py:17), scaled
BUFFER_SIZE == 3
\* grid shape (100 x 100 in edge-device.py:61), scaled
Rows == 2
Cols == 2
\* number of trigger handler coroutines that may be in flight at once
NumHandlers == 2
\* number of INSERTs the database is followed for
MaxRecords == 2
\* number of connections left open that the database is followed for
MaxOpen == 2

GridCells == Rows * Cols

\* ------------------------------------------------------- Python values
None == [type |-> "NoneType"]

Float(n) == [type |-> "float", val |-> n]

Str(s) == [type |-> "str", val |-> s]

Int_(n) == [type |-> "int", val |-> n]

IsNone(v) == v.type = "NoneType"

IsFloat(v) == v.type = "float"

IsStr(v) == v.type = "str"

\* truth value of `x` in `x if x else 0`
Truthy(v) ==
    CASE v.type = "NoneType" -> FALSE
      [] v.type = "int" -> v.val # 0
      [] v.type = "float" -> v.val # 0
      [] OTHER -> TRUE

\* ------------------------------------------------ str.split / strip / float
Digits == <<"0", "1", "2", "3", "4", "5", "6", "7", "8", "9">>

IsDigit(c) == \E i \in 1..10 : Digits[i] = c

DigitVal(c) == (CHOOSE i \in 1..10 : Digits[i] = c) - 1

\* s.split(','): the pieces between commas; "" splits into one empty piece
RECURSIVE SplitFrom(_, _, _)
SplitFrom(s, i, cur) ==
    IF i > Len(s) THEN <<cur>>
    ELSE IF s[i] = "," THEN <<cur>> \o SplitFrom(s, i + 1, <<>>)
    ELSE SplitFrom(s, i + 1, Append(cur, s[i]))

Split(s) == SplitFrom(s, 1, <<>>)

RECURSIVE LStrip(_)
LStrip(t) == IF t # <<>> /\ Head(t) = " " THEN LStrip(Tail(t)) ELSE t

RECURSIVE RStrip(_)
RStrip(t) ==
    IF t # <<>> /\ t[Len(t)] = " " THEN RStrip(SubSeq(t, 1, Len(t) - 1)) ELSE t

\* temp.strip()
Strip(t) == RStrip(LStrip(t))

\* float(t) raises ValueError unless t is a number; over the model's
\* alphabet (digits, ",", " ", "x") the numbers are the digit strings
FloatParses(t) == t # <<>> /\ \A i \in 1..Len(t) : IsDigit(t[i])

RECURSIVE FloatOf(_)
FloatOf(t) ==
    IF t = <<>> THEN 0
    ELSE 10 * FloatOf(SubSeq(t, 1, Len(t) - 1)) + DigitVal(t[Len(t)])

\* ','.join(tokens)
RECURSIVE Join(_)
Join(toks) ==
    IF toks = <<>> THEN <<>>
    ELSE IF Len(toks) = 1 THEN toks[1]
    ELSE toks[1] \o <<",">> \o Join(Tail(toks))

\* ------------------------------------------------------------ np.mean
RECURSIVE Gcd(_, _)
Gcd(a, b) == IF b = 0 THEN a ELSE Gcd(b, a % b)

\* the rational n/d, reduced (n >= 0, d > 0)
Frac(n, d) == LET g == Gcd(n, d) IN <<n \div g, d \div g>>

RECURSIVE Sum(_)
Sum(xs) == IF xs = <<>> THEN 0 ELSE Head(xs) + Sum(Tail(xs))

\* np.mean of a list of numbers
Mean(xs) == Frac(Sum(xs), Len(xs))

\* np.mean(arrays, axis=0): element-wise mean of equally long arrays
MeanAxis0(arrays) ==
    [j \in 1..Len(arrays[1]) |->
        Mean([k \in 1..Len(arrays) |-> arrays[k][j]])]

\* ---------------------------------------------------------- send_to_cloud
\* What the HTTP POST can come to: no response in time, no connection, or a
\* response with a status and a body.  A body is not JSON, or a JSON object
\* with or without "record_id" and "stats".
Timeout == [kind |-> "timeout"]

Unreachable == [kind |-> "unreachable"]

Response(status, body) == [kind |-> "response", status |-> status, body |-> body]

Body(record_id, stats) == [json |-> TRUE, record_id |-> record_id, stats |-> stats]

NotJson == [json |-> FALSE]

RecordIds == {1, 2}

Responses ==
    {Timeout, Unreachable, Response(400, NotJson), Response(500, NotJson)}
    \cup {Response(201, Body(Int_(i), TRUE)) : i \in RecordIds}
    \cup {Response(201, Body(Int_(1), FALSE)), Response(201, Body(None, TRUE))}

\* response.raise_for_status() raises HTTPError on 4xx and 5xx
RaisesForStatus(resp) == resp.status >= 400

\* the value send_to_cloud returns when the POST comes to `resp`
send_to_cloud(resp) ==
    IF resp.kind # "response" THEN None                 \* RequestException
    ELSE IF RaisesForStatus(resp) THEN None             \* HTTPError
    ELSE IF ~resp.body.json THEN None                   \* response.json() raises
    ELSE IF ~resp.body.stats THEN None                  \* result['stats'] KeyError
    ELSE resp.body.record_id                            \* result.get('record_id')

Payload(machine_id, timestep, temperatures, power_consumption, vibration) ==
    [machine_id |-> machine_id, timestep |-> timestep,
     temperatures |-> temperatures,
     power_consumption |-> power_consumption, vibration |-> vibration]

\* ------------------------------------------------------ process_telemetry
\* temp_list = [float(temp.strip()) for temp in temperatures.split(',')]
\* raises when temperatures is not a str or a piece is not a number
ParseRaises(temperatures) ==
    \/ ~IsStr(temperatures)
    \/ LET pieces == Split(temperatures.val)
       IN  \E i \in 1..Len(pieces) : ~FloatParses(Strip(pieces[i]))

temp_list(temperatures) ==
    LET pieces == Split(temperatures.val)
    IN  [i \in 1..Len(pieces) |-> FloatOf(Strip(pieces[i]))]

\* np.mean of the buffered scalars raises TypeError when one is None
MeanRaises(buffer) ==
    \E k \in 1..Len(buffer) :
        ~IsFloat(buffer[k].power_consumption) \/ ~IsFloat(buffer[k].vibration)

\* str(x) of an averaged float: the float itself, as one token
StrOfFloat(q) == [float |-> q]

\* temp_string = ','.join(map(str, avg_temperatures.tolist()))
temp_string(avg_temperatures) ==
    Str(Join([j \in 1..Len(avg_temperatures) |->
                <<StrOfFloat(avg_temperatures[j])>>]))

Final_First(buffer) == buffer[1]

\* telemetry_buffer[-1]: the most recent entry (lines 91-92)
Final(buffer) == buffer[Len(buffer)]

\* the payload built from a full buffer (lines 84-98)
Averaged(buffer) ==
    Payload(Final(buffer).machine_id,
            Final(buffer).timestep,
            temp_string(MeanAxis0([k \in 1..Len(buffer) |-> buffer[k].temperatures])),
            Float(Mean([k \in 1..Len(buffer) |-> buffer[k].power_consumption.val])),
            Float(Mean([k \in 1..Len(buffer) |-> buffer[k].vibration.val])))

\* the buffer entry (lines 69-75)
Snapshot(args, temp_array) ==
    [machine_id |-> args.machine_id, timestep |-> args.timestep,
     temperatures |-> temp_array,
     power_consumption |-> args.power_consumption,
     vibration |-> args.vibration]

InvalidSize_ShortOnly(list) == Len(list) < GridCells

\* if len(temp_list) != 10000 (line 61)
InvalidSize(list) == Len(list) # GridCells

BufferFull_Exceeds(buffer) == Len(buffer) > BUFFER_SIZE

\* if len(telemetry_buffer) >= BUFFER_SIZE (line 80)
BufferFull(buffer) == Len(buffer) >= BUFFER_SIZE

Cleared_Never(buffer, record_id) == buffer

Cleared_UnlessFailed(buffer, record_id) ==
    IF IsNone(record_id) THEN buffer ELSE <<>>

\* telemetry_buffer = [] after send_to_cloud returned record_id (line 101)
Cleared(buffer, record_id) == <<>>

\* process_telemetry up to the call of send_to_cloud (lines 56-95): the
\* buffer so far, and whether the call ends here ("raised": the except of
\* line 107; "bad_size": line 63; "buffered": line 105) or goes on to
\* send the averaged window ("send")
Prepared(buffer, args) ==
    IF ParseRaises(args.temperatures)
    THEN [outcome |-> "raised", buffer |-> buffer, posted |-> <<>>,
          window |-> <<>>]
    ELSE LET temp_array == temp_list(args.temperatures)
         IN  IF InvalidSize(temp_array)
             THEN [outcome |-> "bad_size", buffer |-> buffer, posted |-> <<>>,
                   window |-> <<>>]
             ELSE LET appended == Append(buffer, Snapshot(args, temp_array))
                  IN  IF BufferFull(appended)
                      THEN IF MeanRaises(appended)
                           THEN [outcome |-> "raised", buffer |-> appended,
                                 posted |-> <<>>, window |-> <<>>]
                           ELSE [outcome |-> "send", buffer |-> appended,
                                 posted |-> <<Averaged(appended)>>,
                                 window |-> appended]
                      ELSE [outcome |-> "buffered", buffer |-> appended,
                            posted |-> <<>>, window |-> <<>>]

\* the rest of process_telemetry (lines 97-109), the POST coming to `resp`:
\* the buffer afterwards, the value returned, the payloads posted and the
\* window that was averaged
Completed(p, resp) ==
    IF p.outcome = "send"
    THEN LET record_id == send_to_cloud(resp)
         IN  [buffer |-> Cleared(p.buffer, record_id), ret |-> record_id,
              posted |-> p.posted, window |-> p.window, outcome |-> "flushed"]
    ELSE [buffer |-> p.buffer, ret |-> None, posted |-> <<>>,
          window |-> <<>>, outcome |-> p.outcome]

\* one call of process_telemetry on `buffer` with arguments `args`
process_telemetry(buffer, args, resp) == Completed(Prepared(buffer, args), resp)

\* ------------------------------------------------------------- inputs
\* str(n) for a natural number n, as characters
RECURSIVE NumStr(_)
NumStr(n) ==
    IF n < 10 THEN <<Digits[n + 1]>>
    ELSE NumStr(n \div 10) \o <<Digits[(n % 10) + 1]>>

\* the comma-separated string of a flat list of values; `pad` puts blanks
\* around every value
Csv(values, pad) ==
    Join([i \in 1..Len(values) |->
            IF pad THEN <<" ">> \o NumStr(values[i]) \o <<" ">>
            ELSE NumStr(values[i])])

Uniform(c, n) == [i \in 1..n |-> c]

Ramp(n) == [i \in 1..n |-> 10 + i]

\* Temperatures strings with exactly GridCells numbers
GridA == Uniform(20, GridCells)

GridB == Ramp(GridCells)

TempsA == Str(Csv(GridA, FALSE))

TempsB == Str(Csv(GridB, TRUE))

ValidTemps == {TempsA, TempsB}

\* the grid a valid Temperatures string was written from
GridOf(temperatures) == IF temperatures = TempsA THEN GridA ELSE GridB

\* Temperatures values that are no such string: one value short, one value
\* long, an element that is no number, the empty string, null
WrongCountTemps ==
    {Str(Csv(Uniform(20, GridCells - 1), FALSE)),
     Str(Csv(Uniform(20, GridCells + 1), FALSE))}

UnparsableTemps ==
    {Str(Csv(Uniform(20, GridCells - 1), FALSE) \o <<",", "x">>)}

AbsentTemps == {Str(<<>>), None}

InvalidTemps == WrongCountTemps \cup UnparsableTemps \cup AbsentTemps

Args(machine_id, timestep, temperatures, power_consumption, vibration) ==
    [machine_id |-> machine_id, timestep |-> timestep,
     temperatures |-> temperatures,
     power_consumption |-> power_consumption, vibration |-> vibration]

M1 == Str("M1")

M2 == Str("M2")

\* complete raw snapshots: every field present, Temperatures valid
GoodInputs ==
    {Args(M1, Str("t1"), TempsA, Float(5), Float(1)),
     Args(M1, Str("t2"), TempsB, Float(8), Float(2)),
     Args(M2, Str("t1"), TempsB, Float(5), Float(2)),
     Args(M2, Str("t2"), TempsA, Float(8), Float(1))}

BaseInput == Args(M1, Str("t1"), TempsA, Float(5), Float(1))

\* raw snapshots with one field absent (empty or null), Temperatures valid
AbsentFieldInputs ==
    {[BaseInput EXCEPT !.machine_id = Str("")],
     [BaseInput EXCEPT !.timestep = None],
     [BaseInput EXCEPT !.power_consumption = None],
     [BaseInput EXCEPT !.vibration = None]}

\* raw snapshots whose Temperatures fails validation
InvalidTempsInputs == {[BaseInput EXCEPT !.temperatures = t] : t \in InvalidTemps}

Inputs == GoodInputs \cup AbsentFieldInputs \cup InvalidTempsInputs

\* a field of a raw snapshot is absent: the empty string or null
AbsentField(args) ==
    \/ IsNone(args.machine_id) \/ args.machine_id = Str("")
    \/ IsNone(args.timestep) \/ args.timestep = Str("")
    \/ args.temperatures \in AbsentTemps
    \/ IsNone(args.power_consumption)
    \/ IsNone(args.vibration)

\* ------------------------------------------------------- store_telemetry
\* (src/edge-device-db-opcua.py)

Reshape_ColumnMajor(list, rows, cols) ==
    [r \in 1..rows |-> [c \in 1..cols |-> list[(c - 1) * rows + r]]]

\* np.array(temp_list).reshape(rows, cols): the list cut into rows of
\* cols values each, in order (line 72)
Reshape(list, rows, cols) ==
    [r \in 1..rows |-> SubSeq(list, (r - 1) * cols + 1, r * cols)]

\* the cells of a 2-d array in the order numpy reduces over them
RECURSIVE Flatten(_)
Flatten(array) ==
    IF array = <<>> THEN <<>> ELSE Head(array) \o Flatten(Tail(array))

\* np.min, np.max (lines 76-77)
RECURSIVE Min(_)
Min(xs) ==
    IF Len(xs) = 1 THEN xs[1]
    ELSE LET m == Min(Tail(xs)) IN IF xs[1] < m THEN xs[1] ELSE m

RECURSIVE Max(_)
Max(xs) ==
    IF Len(xs) = 1 THEN xs[1]
    ELSE LET m == Max(Tail(xs)) IN IF xs[1] > m THEN xs[1] ELSE m

\* the sum of (x - n/d)^2 over xs, as a multiple of 1/d^2
RECURSIVE SumSquaredDeviations(_, _, _)
SumSquaredDeviations(xs, n, d) ==
    IF xs = <<>> THEN 0
    ELSE (xs[1] * d - n) * (xs[1] * d - n) + SumSquaredDeviations(Tail(xs), n, d)

Variance_Sample(xs) ==
    LET m == Mean(xs)
    IN  Frac(SumSquaredDeviations(xs, m[1], m[2]), m[2] * m[2] * (Len(xs) - 1))

\* mean(abs(x - x.mean())**2), the variance np.std takes the root of
\* (ddof = 0)
Variance(xs) ==
    LET m == Mean(xs)
    IN  Frac(SumSquaredDeviations(xs, m[1], m[2]), m[2] * m[2] * Len(xs))

IsSquare(n) == \E a \in 0..n : a * a = n

Root(n) == CHOOSE a \in 0..n : a * a = n

\* sqrt of a rational: the rational root where there is one, else the
\* irrational number written by its square
Sqrt(q) ==
    IF IsSquare(q[1]) /\ IsSquare(q[2])
    THEN [type |-> "float", val |-> <<Root(q[1]), Root(q[2])>>]
    ELSE [type |-> "float", sqrt_of |-> q]

\* np.std (line 79)
Std(xs) == Sqrt(Variance(xs))

\* stats (lines 75-80)
Stats(temp_array) ==
    LET cells == Flatten(temp_array)
    IN  [min |-> Float(Min(cells)), max |-> Float(Max(cells)),
         mean |-> Float(Mean(cells)), std |-> Std(cells)]

\* str(timestep) (line 94)
StrOf(v) == IF IsNone(v) THEN Str("None") ELSE v

\* what the database calls of one store_telemetry can come to: all
\* succeed, or psycopg2.connect, the INSERT, fetchone or commit raises
Faults == {"none", "connect", "insert", "fetch", "commit"}

\* machine_id, power_consumption and vibration are NOT NULL columns filled
\* from the arguments (lines 35-39 and 93-97)
NotNullViolated(args) ==
    IsNone(args.machine_id) \/ IsNone(args.power_consumption) \/ IsNone(args.vibration)

\* the row of table telemetry (lines 86-103)
Row(id, args, temp_array, stats) ==
    [id |-> id, machine_id |-> args.machine_id, timestep |-> StrOf(args.timestep),
     temperatures |-> temp_array,
     power_consumption |-> args.power_consumption, vibration |-> args.vibration,
     min_temp |-> stats.min, max_temp |-> stats.max,
     mean_temp |-> stats.mean, std_temp |-> stats.std]

\* store_telemetry up to the database calls (lines 62-80): validation
\* fails, or the grid and its statistics are ready to be stored
Validated(args) ==
    IF ParseRaises(args.temperatures)
    THEN [outcome |-> "parse_error", grid |-> <<>>, stats |-> <<>>]
    ELSE LET list == temp_list(args.temperatures)
         IN  IF InvalidSize(list)
             THEN [outcome |-> "bad_size", grid |-> <<>>, stats |-> <<>>]
             ELSE LET temp_array == Reshape(list, Rows, Cols)
                  IN  [outcome |-> "valid", grid |-> temp_array,
                       stats |-> Stats(temp_array)]

\* the database calls of store_telemetry (lines 83-108) on database d with
\* the calls coming to `fault`.  A connection is closed only at line 108;
\* the id sequence advances when the INSERT forms its row; a row is
\* visible in the table only once commit has returned.
Inserted(d, args, v, fault) ==
    IF v.outcome # "valid" THEN [db |-> d, ret |-> None, outcome |-> v.outcome]
    ELSE IF fault = "connect"
    THEN [db |-> d, ret |-> None, outcome |-> "db_error"]
    ELSE IF fault = "insert"
    THEN [db |-> [d EXCEPT !.open = @ + 1], ret |-> None, outcome |-> "db_error"]
    ELSE IF NotNullViolated(args) \/ fault \in {"fetch", "commit"}
    THEN [db |-> [d EXCEPT !.open = @ + 1, !.serial = @ + 1], ret |-> None,
          outcome |-> "db_error"]
    ELSE [db |-> [d EXCEPT !.serial = @ + 1,
                           !.rows = Append(@, Row(d.serial, args, v.grid, v.stats))],
          ret |-> Int_(d.serial), outcome |-> "stored"]

\* one call of store_telemetry
store_telemetry(d, args, fault) == Inserted(d, args, Validated(args), fault)

\* ---------------------------------------------------------------- state
VARIABLES
    telemetry_buffer,   \* the global list of edge-device.py:16
    call,               \* history: the last call of process_telemetry
    submitted,          \* history: the raw snapshots with valid Temperatures
                        \* passed to process_telemetry since the last POST
    since,              \* history: per machine_id, the snapshots appended
                        \* since the last POST made under that machine_id
    nodes,              \* the values of the OPC UA variables (lines 134-140)
    handlers,           \* the bag of running datachange_notification
                        \* coroutines: the position and locals of each
    written,            \* history: the last write to LastRecordID and the
                        \* outcome of the call it reports
    db,                 \* the PostgreSQL database of edge-device-db-opcua.py:
                        \* the committed rows of table telemetry, the next
                        \* value of its id sequence, the connections open
    stored,             \* history: the last call of store_telemetry
    clients             \* the OPC UA clients: how far each is with its
                        \* submission, and what it observed at its end

vars ==
    <<telemetry_buffer, call, submitted, since, nodes, handlers, written,
      db, stored, clients>>

NoResponse == [kind |-> "none"]

NoCall ==
    [args |-> Args(None, None, None, None, None), ret |-> None,
     posted |-> <<>>, resp |-> NoResponse, window |-> <<>>,
     submitted |-> <<>>, outcome |-> "none"]

CountedMachines == {M1, M2}

InitBuffer ==
    /\ telemetry_buffer = <<>>
    /\ call = NoCall
    /\ submitted = <<>>
    /\ since = [m \in CountedMachines |-> 0]

\* add_variable(idx, name, initial value), lines 134-140
InitNodes ==
    nodes = [MachineID |-> Str(""), Timestep |-> Str(""),
             Temperatures |-> Str(<<>>),
             PowerConsumption |-> Float(0), Vibration |-> Float(0),
             TriggerStorage |-> FALSE, LastRecordID |-> Int_(0)]

\* the OPC UA clients followed, and the raw snapshot each submits: the
\* snapshots differ in every field
Clients == {1, 2}

Submission ==
    [k \in Clients |->
        IF k = 1 THEN Args(M1, Str("t1"), TempsA, Float(5), Float(1))
        ELSE Args(M2, Str("t2"), TempsB, Float(8), Float(2))]

\* history: the client whose submission these arguments are, 0 when they
\* are no client's submission
SubmissionOf(args) ==
    IF \E k \in Clients : Submission[k] = args
    THEN CHOOSE k \in Clients : Submission[k] = args
    ELSE 0

\* no client has written anything yet
InitClients == clients = [k \in Clients |-> [pc |-> "MachineID", observed |-> 0]]

\* a coroutine that has passed `if val` (line 153) and awaits its first read
Started ==
    [pc |-> "read_machine_id", machine_id |-> None, timestep |-> None,
     temperatures |-> None, power_consumption |-> None, record_id |-> None,
     outcome |-> "none", submission |-> 0]

InitHandlers ==
    /\ handlers = EmptyBag
    /\ written = [outcome |-> "none", value |-> Int_(0), submission |-> 0]

\* the history of one call with result r
Logged(args) ==
    IF args.temperatures \in ValidTemps THEN Append(submitted, args) ELSE submitted

CallRecord(args, resp, r) ==
    [args |-> args, ret |-> r.ret, posted |-> r.posted,
     resp |-> resp,
     window |-> r.window, submitted |-> Logged(args), outcome |-> r.outcome]

\* process_telemetry(args) is called and returns r.  The buffer grows past
\* BUFFER_SIZE - 1 entries only when averaging raises; it is followed one
\* entry beyond BUFFER_SIZE.
Call(args, resp, r) ==
    /\ Len(telemetry_buffer) <= BUFFER_SIZE
    /\ telemetry_buffer' = r.buffer
    /\ call' = CallRecord(args, resp, r)
    /\ submitted' = IF r.posted # <<>> THEN <<>> ELSE Logged(args)

\* the outcomes a call prepared as p can have: those of its POST, if it
\* makes one, among `responses`
Outcomes(p, responses) == IF p.outcome = "send" THEN responses ELSE {NoResponse}

ProcessTelemetry ==
    \E args \in Inputs :
        LET p == Prepared(telemetry_buffer, args)
        IN  \E resp \in Outcomes(p, Responses) :
                /\ Call(args, resp, Completed(p, resp))
                /\ UNCHANGED <<since, nodes, handlers, written, db, stored, clients>>

\* init_db (lines 26-56): the table exists and is empty, SERIAL ids start
\* at 1, init_db has closed its connection
InitDb ==
    /\ db = [rows |-> <<>>, serial |-> 1, open |-> 0]
    /\ stored = [args |-> Args(None, None, None, None, None), fault |-> "none",
                 ret |-> None, outcome |-> "none", grid |-> <<>>, stats |-> <<>>]

Init == InitBuffer /\ InitNodes /\ InitHandlers /\ InitDb /\ InitClients

Next == ProcessTelemetry

Spec == Init /\ [][Next]_vars


\* SpecCadence: calls for two machines with complete, valid snapshots, with
\* the per-machine count of appended snapshots kept as history.
CadenceInputs ==
    {Args(M1, Str("t1"), TempsA, Float(5), Float(1)),
     Args(M2, Str("t1"), TempsB, Float(5), Float(2))}

\* the count saturates above the window length
Counted(n) == IF n > BUFFER_SIZE THEN n ELSE n + 1

CadenceCall ==
    \E args \in CadenceInputs :
        LET p == Prepared(telemetry_buffer, args)
        IN  \E resp \in Outcomes(p, Responses) :
                /\ Call(args, resp, Completed(p, resp))
                /\ UNCHANGED <<nodes, handlers, written, db, stored, clients>>
                /\ since' = IF call'.posted # <<>>
                            THEN [since EXCEPT ![args.machine_id] = 0]
                            ELSE [since EXCEPT ![args.machine_id] = Counted(@)]

NextCadence == CadenceCall

SpecCadence == Init /\ [][NextCadence]_vars

\* SpecForward: a call of process_telemetry that flushes is followed in two
\* steps, up to the POST of send_to_cloud (line 32) and from its return, to
\* see the state the process is in while the POST is in flight.
\* process_telemetry is synchronous: no other call runs in between.
Sending == call.outcome = "sending"

\* process_telemetry(args) runs until it returns or until requests.post is
\* entered (lines 56-98 and 32)
BeginCall ==
    /\ ~Sending
    /\ \E args \in GoodInputs :
          LET p == Prepared(telemetry_buffer, args)
          IN  IF p.outcome = "send"
              THEN /\ telemetry_buffer' = p.buffer
                   /\ call' = [args |-> args, ret |-> None, posted |-> p.posted,
                                resp |-> NoResponse, window |-> p.window,
                                submitted |-> Logged(args), outcome |-> "sending"]
                   /\ submitted' = Logged(args)
              ELSE Call(args, NoResponse, Completed(p, NoResponse))
    /\ UNCHANGED <<since, nodes, handlers, written, db, stored, clients>>

\* requests.post returns or raises, and process_telemetry runs to its
\* return (lines 33-48 and 99-103)
PostReturns ==
    /\ Sending
    /\ \E resp \in Responses :
          LET p == [outcome |-> "send", buffer |-> telemetry_buffer,
                    posted |-> call.posted, window |-> call.window]
              r == Completed(p, resp)
          IN  /\ telemetry_buffer' = r.buffer
              /\ call' = [call EXCEPT !.ret = r.ret, !.resp = resp,
                                      !.outcome = r.outcome]
              /\ submitted' = <<>>
    /\ UNCHANGED <<since, nodes, handlers, written, db, stored, clients>>

NextForward == BeginCall \/ PostReturns

SpecForward == Init /\ [][NextForward]_vars

\* SpecStore: calls of store_telemetry of the direct-to-database variant.
StoredRecord(args, fault, v, r) ==
    [args |-> args, fault |-> fault, ret |-> r.ret, outcome |-> r.outcome,
     grid |-> v.grid, stats |-> v.stats]

\* store_telemetry(args) is called and returns r
StoreCall(args, fault, v, r) ==
    /\ db.serial <= MaxRecords
    /\ db.open < MaxOpen
    /\ db' = r.db
    /\ stored' = StoredRecord(args, fault, v, r)

\* the outcomes the database calls can have, if the call makes any
DbOutcomes(v) == IF v.outcome = "valid" THEN Faults ELSE {"none"}

StoreTelemetry ==
    \E args \in Inputs :
        LET v == Validated(args)
        IN  \E fault \in DbOutcomes(v) :
                /\ StoreCall(args, fault, v, Inserted(db, args, v, fault))
                /\ UNCHANGED <<telemetry_buffer, call, submitted, since, nodes,
                               handlers, written, clients>>

\* a connection store_telemetry left open is closed by the interpreter
\* when it reclaims the connection object: at once on return under
\* reference counting, at some later time or never otherwise
ConnectionCollected ==
    /\ db.open > 0
    /\ db' = [db EXCEPT !.open = @ - 1]
    /\ UNCHANGED <<telemetry_buffer, call, submitted, since, nodes, handlers,
                   written, stored, clients>>

NextStore == StoreTelemetry \/ ConnectionCollected

SpecStore == Init /\ [][NextStore]_vars

\* ------------------------------------------------- the trigger handler
\* SpecHandlers: OPC UA clients write the input variables and the trigger;
\* every change of TriggerStorage to True starts a datachange_notification
\* coroutine, and the coroutines interleave at their awaits.

\* the values clients write to the input variables; Timestep,
\* PowerConsumption and Vibration keep the values they are created with
ClientValues ==
    [MachineID |-> {M1},
     Temperatures |-> {TempsA}]

\* the outcomes of the POST explored with the handlers
HandlerResponses == {Timeout, Response(201, Body(Int_(1), TRUE))}

\* a client writes one input variable
ClientWrite ==
    \E name \in DOMAIN ClientValues : \E v \in ClientValues[name] :
        /\ nodes' = [nodes EXCEPT ![name] = v]
        /\ UNCHANGED <<telemetry_buffer, call, submitted, since, handlers, written, db, stored,
                   clients>>

\* a client writes TriggerStorage; the subscription (lines 170-172) reports
\* a change of the value, and a change to True passes `if val` (line 153)
\* and starts a coroutine
ClientTrigger ==
    \E val \in BOOLEAN :
        /\ nodes' = [nodes EXCEPT !.TriggerStorage = val]
        /\ IF val /\ ~nodes.TriggerStorage
           THEN /\ BagCardinality(handlers) < NumHandlers
                /\ handlers' = handlers (+) SetToBag({Started})
           ELSE UNCHANGED handlers
        /\ UNCHANGED <<telemetry_buffer, call, submitted, since, written, db, stored,
                   clients>>

\* the coroutine c goes on as d
Resumed(c, d) == (handlers (-) SetToBag({c})) (+) SetToBag({d})

\* machine_id = await machine_id_var.read_value() (line 155)
ReadMachineID(c) ==
    /\ c.pc = "read_machine_id"
    /\ handlers' = Resumed(c, [c EXCEPT !.machine_id = nodes.MachineID,
                                        !.pc = "read_timestep"])
    /\ UNCHANGED <<telemetry_buffer, call, submitted, since, nodes, written, db, stored,
                   clients>>

\* timestep = await timestep_var.read_value() (line 156)
ReadTimestep(c) ==
    /\ c.pc = "read_timestep"
    /\ handlers' = Resumed(c, [c EXCEPT !.timestep = nodes.Timestep,
                                        !.pc = "read_temperatures"])
    /\ UNCHANGED <<telemetry_buffer, call, submitted, since, nodes, written, db, stored,
                   clients>>

\* temperatures = await temperatures_var.read_value() (line 157)
ReadTemperatures(c) ==
    /\ c.pc = "read_temperatures"
    /\ handlers' = Resumed(c, [c EXCEPT !.temperatures = nodes.Temperatures,
                                        !.pc = "read_power_consumption"])
    /\ UNCHANGED <<telemetry_buffer, call, submitted, since, nodes, written, db, stored,
                   clients>>

\* power_consumption = await power_consumption_var.read_value() (line 158)
ReadPowerConsumption(c) ==
    /\ c.pc = "read_power_consumption"
    /\ handlers' = Resumed(c, [c EXCEPT !.power_consumption = nodes.PowerConsumption,
                                        !.pc = "read_vibration"])
    /\ UNCHANGED <<telemetry_buffer, call, submitted, since, nodes, written, db, stored,
                   clients>>

\* what the written-back value is meant to tell apart (the three results
\* of a submission)
OutcomeClass(r) ==
    IF r.outcome = "flushed" /\ ~IsNone(r.ret) THEN "stored"
    ELSE IF r.outcome = "buffered" THEN "buffered"
    ELSE "failed"

\* vibration = await vibration_var.read_value(), then, without an await in
\* between, record_id = process_telemetry(...) (lines 159-162); the locals
\* read before are not used after the call
Process(c) ==
    /\ c.pc = "read_vibration"
    /\ LET args == Args(c.machine_id, c.timestep, c.temperatures,
                        c.power_consumption, nodes.Vibration)
           p == Prepared(telemetry_buffer, args)
       IN  \E resp \in Outcomes(p, HandlerResponses) :
             LET r == Completed(p, resp)
             IN  /\ Call(args, resp, r)
                 /\ handlers' = Resumed(c, [Started EXCEPT
                                               !.record_id = r.ret,
                                               !.outcome = OutcomeClass(r),
                                               !.submission = SubmissionOf(args),
                                               !.pc = "write_result"])
    /\ UNCHANGED <<since, nodes, written, db, stored, clients>>

\* the value of `record_id if record_id else 0` (line 165)
WrittenBack(record_id) == IF Truthy(record_id) THEN record_id ELSE Int_(0)

\* await result_var.write_value(record_id if record_id else 0) (line 165)
WriteResult(c) ==
    /\ c.pc = "write_result"
    /\ nodes' = [nodes EXCEPT !.LastRecordID = WrittenBack(c.record_id)]
    /\ written' = [outcome |-> c.outcome, value |-> WrittenBack(c.record_id),
                   submission |-> c.submission]
    /\ handlers' = Resumed(c, [c EXCEPT !.pc = "reset_trigger"])
    /\ UNCHANGED <<telemetry_buffer, call, submitted, since, db, stored,
                   clients>>

\* await trigger_var.write_value(False) (line 168); the notification of
\* this change fails `if val`, and the coroutine ends
ResetTrigger(c) ==
    /\ c.pc = "reset_trigger"
    /\ nodes' = [nodes EXCEPT !.TriggerStorage = FALSE]
    /\ handlers' = handlers (-) SetToBag({c})
    /\ UNCHANGED <<telemetry_buffer, call, submitted, since, written, db, stored,
                   clients>>

NextHandlers ==
    \/ ClientWrite
    \/ ClientTrigger
    \/ \E c \in BagToSet(handlers) :
          \/ ReadMachineID(c)
          \/ ReadTimestep(c)
          \/ ReadTemperatures(c)
          \/ ReadPowerConsumption(c)
          \/ Process(c)
          \/ WriteResult(c)
          \/ ResetTrigger(c)

SpecHandlers == Init /\ [][NextHandlers]_vars

\* SpecStoreHandlers: the trigger handler of the direct-to-database variant
\* (edge-device-db-opcua.py:161-178), which is the handler above with
\* store_telemetry in the place of process_telemetry.

\* the values clients write to the input variables here
StoreClientValues ==
    [MachineID |-> {M1},
     Timestep |-> {Str("t1"), None},
     Temperatures |-> {TempsA}]

\* the outcomes of the database calls explored with the handlers
HandlerFaults == {"none", "commit"}

StoreClientWrite ==
    \E name \in DOMAIN StoreClientValues : \E v \in StoreClientValues[name] :
        /\ nodes' = [nodes EXCEPT ![name] = v]
        /\ UNCHANGED <<telemetry_buffer, call, submitted, since, handlers,
                       written, db, stored, clients>>

\* vibration = await vibration_var.read_value(), then, without an await in
\* between, record_id = store_telemetry(...) (lines 169-172)
Store(c) ==
    /\ c.pc = "read_vibration"
    /\ LET args == Args(c.machine_id, c.timestep, c.temperatures,
                        c.power_consumption, nodes.Vibration)
           v == Validated(args)
       IN  \E fault \in DbOutcomes(v) \cap HandlerFaults :
             LET r == Inserted(db, args, v, fault)
             IN  /\ StoreCall(args, fault, v, r)
                 /\ handlers' = Resumed(c, [Started EXCEPT
                                               !.record_id = r.ret,
                                               !.outcome = IF r.outcome = "stored"
                                                           THEN "stored"
                                                           ELSE "failed",
                                               !.submission = SubmissionOf(args),
                                               !.pc = "write_result"])
    /\ UNCHANGED <<telemetry_buffer, call, submitted, since, nodes, written,
                   clients>>

NextStoreHandlers ==
    \/ StoreClientWrite
    \/ ConnectionCollected
    \/ ClientTrigger
    \/ \E c \in BagToSet(handlers) :
          \/ ReadMachineID(c)
          \/ ReadTimestep(c)
          \/ ReadTemperatures(c)
          \/ ReadPowerConsumption(c)
          \/ Store(c)
          \/ WriteResult(c)
          \/ ResetTrigger(c)

SpecStoreHandlers == Init /\ [][NextStoreHandlers]_vars

\* SpecClients: each client writes its snapshot to the input variables one
\* by one, sets TriggerStorage, and waits for the trigger to return to
\* False to read LastRecordID; the clients and the handler coroutines
\* interleave freely.
InputVariables ==
    <<"MachineID", "Timestep", "Temperatures", "PowerConsumption", "Vibration">>

ArgumentOf ==
    [MachineID |-> "machine_id", Timestep |-> "timestep",
     Temperatures |-> "temperatures", PowerConsumption |-> "power_consumption",
     Vibration |-> "vibration"]

\* the variable a client writes after `name`
Following(name) ==
    IF name = "Vibration" THEN "TriggerStorage"
    ELSE InputVariables[(CHOOSE i \in 1..5 : InputVariables[i] = name) + 1]

\* client k writes the next input variable of its submission
ClientWrites(k) ==
    /\ clients[k].pc \in DOMAIN ArgumentOf
    /\ nodes' = [nodes EXCEPT ![clients[k].pc] =
                                  Submission[k][ArgumentOf[clients[k].pc]]]
    /\ clients' = [clients EXCEPT ![k].pc = Following(@)]
    /\ UNCHANGED <<telemetry_buffer, call, submitted, since, handlers,
                   written, db, stored>>

\* client k writes True to TriggerStorage.  A write that changes the value
\* is notified to the subscription (lines 170-172) and starts a coroutine;
\* whether a write of the value the variable already has is notified
\* depends on the asyncua release, so both are followed.
ClientSetsTrigger(k) ==
    /\ clients[k].pc = "TriggerStorage"
    /\ nodes' = [nodes EXCEPT !.TriggerStorage = TRUE]
    /\ clients' = [clients EXCEPT ![k].pc = "await_reset"]
    /\ \E notified \in (IF nodes.TriggerStorage THEN BOOLEAN ELSE {TRUE}) :
          handlers' = IF notified THEN handlers (+) SetToBag({Started})
                      ELSE handlers
    /\ UNCHANGED <<telemetry_buffer, call, submitted, since, written, db,
                   stored>>

\* client k sees TriggerStorage back at False and reads LastRecordID
ClientObserves(k) ==
    /\ clients[k].pc = "await_reset"
    /\ ~nodes.TriggerStorage
    /\ clients' = [clients EXCEPT ![k] = [pc |-> "done",
                                          observed |-> written.submission]]
    /\ UNCHANGED <<telemetry_buffer, call, submitted, since, nodes, handlers,
                   written, db, stored>>

NextClients ==
    \/ \E k \in Clients :
          \/ ClientWrites(k)
          \/ ClientSetsTrigger(k)
          \/ ClientObserves(k)
    \/ \E c \in BagToSet(handlers) :
          \/ ReadMachineID(c)
          \/ ReadTimestep(c)
          \/ ReadTemperatures(c)
          \/ ReadPowerConsumption(c)
          \/ Process(c)
          \/ WriteResult(c)
          \/ ResetTrigger(c)

SpecClients == Init /\ [][NextClients]_vars

\* ------------------------------------------------------------ properties
Flushed == call.posted # <<>>

\* the numbers of an averaged Temperatures string: tokens at the odd
\* positions, commas between them
WellFormedCsv(str) ==
    /\ Len(str) % 2 = 1
    /\ \A i \in 1..Len(str) : (i % 2 = 0) => str[i] = ","

FloatsOf(str) == [j \in 1..((Len(str) + 1) \div 2) |-> str[2 * j - 1].float]

\* the rational q is the arithmetic mean of the numbers xs
IsMean(q, xs) == q[2] > 0 /\ q[1] * Len(xs) = q[2] * Sum(xs)

\* the payload is the average of the raw snapshots s
IsAverageOf(payload, s) ==
    /\ IsStr(payload.temperatures)
    /\ WellFormedCsv(payload.temperatures.val)
    /\ LET cells == FloatsOf(payload.temperatures.val)
       IN  /\ Len(cells) = GridCells
           /\ \A j \in 1..GridCells :
                 IsMean(cells[j], [k \in 1..Len(s) |-> GridOf(s[k].temperatures)[j]])
    /\ IsMean(payload.power_consumption.val,
              [k \in 1..Len(s) |-> s[k].power_consumption.val])
    /\ IsMean(payload.vibration.val,
              [k \in 1..Len(s) |-> s[k].vibration.val])

\* the payload carries the very values of the raw snapshot a
EqualsSnapshot(payload, a) ==
    /\ FloatsOf(payload.temperatures.val)
         = [j \in 1..GridCells |-> <<GridOf(a.temperatures)[j], 1>>]
    /\ payload.power_consumption.val = <<a.power_consumption.val, 1>>
    /\ payload.vibration.val = <<a.vibration.val, 1>>

AllGood(s) == \A k \in 1..Len(s) : s[k] \in GoodInputs

\* C1: every forwarded average is computed only from snapshots whose
\* machine_id is the machine_id of the forwarded snapshot.
C1_NoCrossMachineAverage ==
    Flushed =>
        \A k \in 1..Len(call.submitted) :
            call.submitted[k].machine_id = call.posted[1].machine_id

\* C2: a call for machine M posts if and only if its snapshot is the
\* BUFFER_SIZE-th appended for M since the last POST made for M.
C2_FlushCadencePerMachine ==
    [][(call'.posted # <<>>) <=> (since[call'.args.machine_id] + 1 = BUFFER_SIZE)]_vars

\* C3: from an empty buffer, complete valid snapshots give no POST before
\* the BUFFER_SIZE-th and exactly one on it; its grid is the element-wise
\* mean of those grids, its power and vibration the means of their values;
\* identical snapshots average to themselves.
C3_WindowMean ==
    (call.args \in GoodInputs /\ AllGood(call.submitted)) =>
        /\ Len(call.submitted) <= BUFFER_SIZE
        /\ Len(call.submitted) < BUFFER_SIZE => call.posted = <<>>
        /\ Len(call.submitted) = BUFFER_SIZE =>
              /\ Len(call.posted) = 1
              /\ IsAverageOf(call.posted[1], call.submitted)
              /\ (\A k \in 1..BUFFER_SIZE : call.submitted[k] = call.args)
                    => EqualsSnapshot(call.posted[1], call.args)

C3_Witness ==
    /\ Flushed
    /\ AllGood(call.submitted)
    /\ Len(call.submitted) = BUFFER_SIZE
    /\ call.submitted[1].temperatures # call.args.temperatures
    /\ call.submitted[1].power_consumption # call.args.power_consumption

\* C5: between calls the buffer holds 0 .. BUFFER_SIZE - 1 snapshots.
C5_BufferBelowWindow == Len(telemetry_buffer) \in 0..(BUFFER_SIZE - 1)

\* the POST got no success response: timeout, no connection, status not 2xx
ForwardFailed(resp) ==
    \/ resp.kind \in {"timeout", "unreachable"}
    \/ resp.kind = "response" /\ resp.status \notin 200..299

\* C6: when the forward of a window fails, the buffer is empty after the
\* call, one POST was attempted and no record id is returned.
C6_ForwardFailureDropsWindow ==
    (Flushed /\ ForwardFailed(call.resp)) =>
        /\ telemetry_buffer = <<>>
        /\ Len(call.posted) = 1
        /\ IsNone(call.ret)

C6_Witness ==
    /\ Flushed
    /\ call.resp = Timeout
    /\ Len(call.window) = BUFFER_SIZE

\* C7: a raw snapshot whose Temperatures has an element that is no number
\* or a wrong element count leaves the buffer as it was, posts nothing and
\* returns no record id.
C7_InvalidLeavesBuffer ==
    [][call'.args.temperatures \in InvalidTemps =>
          /\ telemetry_buffer' = telemetry_buffer
          /\ call'.posted = <<>>
          /\ IsNone(call'.ret)]_vars

C7_Witness ==
    /\ call.args.temperatures \in WrongCountTemps \cup UnparsableTemps
    /\ Len(telemetry_buffer) = BUFFER_SIZE - 1

\* C8: a raw snapshot with an absent machine_id, timestep, temperatures,
\* power_consumption or vibration is never appended to the buffer.
C8_AbsentFieldNeverBuffered ==
    \A k \in 1..Len(telemetry_buffer) :
        /\ ~IsNone(telemetry_buffer[k].machine_id)
        /\ telemetry_buffer[k].machine_id # Str("")
        /\ ~IsNone(telemetry_buffer[k].timestep)
        /\ telemetry_buffer[k].timestep # Str("")
        /\ ~IsNone(telemetry_buffer[k].power_consumption)
        /\ ~IsNone(telemetry_buffer[k].vibration)

\* C10: the machine_id and timestep of a forwarded average are those of
\* the snapshot appended last in its window.
C10_IdentityOfLast ==
    Flushed =>
        /\ call.posted[1].machine_id = call.args.machine_id
        /\ call.posted[1].timestep = call.args.timestep

C10_Witness ==
    /\ Flushed
    /\ call.submitted[1].machine_id # call.args.machine_id
    /\ call.submitted[1].timestep # call.args.timestep

\* the buffer entry of a raw snapshot with valid Temperatures
SnapshotOf(a) ==
    [machine_id |-> a.machine_id, timestep |-> a.timestep,
     temperatures |-> GridOf(a.temperatures),
     power_consumption |-> a.power_consumption, vibration |-> a.vibration]

\* C4: with trigger handlers interleaving at their awaits, the valid
\* snapshots they submit are buffered once each, exactly one POST is made
\* when BUFFER_SIZE of them were submitted, and its window holds each of
\* them exactly once.
C4_OneFlushEachSnapshotOnce ==
    /\ telemetry_buffer = [k \in 1..Len(submitted) |-> SnapshotOf(submitted[k])]
    /\ Len(submitted) < BUFFER_SIZE
    /\ Flushed <=> (call.args.temperatures \in ValidTemps
                      /\ Len(call.submitted) = BUFFER_SIZE)
    /\ Flushed =>
          /\ Len(call.posted) = 1
          /\ call.window = [k \in 1..BUFFER_SIZE |-> SnapshotOf(call.submitted[k])]

\* a POST made by one handler while another one, whose snapshot is in the
\* window, has not finished
C4_Witness ==
    /\ Flushed
    /\ \E c, d \in BagToSet(handlers) :
          /\ c.pc = "write_result"
          /\ c.outcome \in {"stored", "failed"}
          /\ d.pc = "write_result"
          /\ d.outcome = "buffered"

\* C9: the value written to LastRecordID tells the three results of a
\* submission apart (stored with a record id, buffered, failed): writes
\* reporting different results never carry the same value.
C9_WrittenValueDistinguishes ==
    [][(written.outcome # "none" /\ written'.outcome # written.outcome)
          => written'.value # written.value]_vars

\* the persistence tier accepted the POST: a 2xx response whose JSON body
\* carries the id of the record it created
Accepted(resp) ==
    /\ resp.kind = "response"
    /\ resp.status \in 200..299
    /\ resp.body.json
    /\ resp.body.record_id.type = "int"

\* C11: when the persistence tier accepts a forwarded snapshot (2xx, record
\* created), the call returns the record id of the response, whatever else
\* the response body holds.
C11_AcceptedReturnsRecordId ==
    (Flushed /\ Accepted(call.resp)) => call.ret = call.resp.body.record_id

\* the last BUFFER_SIZE entries of s
LastRun(s) == SubSeq(s, Len(s) - BUFFER_SIZE + 1, Len(s))

\* C12: whatever errors earlier calls ended in, a run of BUFFER_SIZE
\* complete valid snapshots with no POST inside it ends in exactly one
\* POST, the average of exactly those snapshots.
C12_ErrorsDoNotCorruptLaterWindows ==
    (/\ call.args \in GoodInputs
     /\ Len(call.submitted) >= BUFFER_SIZE
     /\ AllGood(LastRun(call.submitted)))
        => /\ Len(call.posted) = 1
           /\ IsAverageOf(call.posted[1], LastRun(call.submitted))

\* C16: every forwarded message carries the statistics (min, max, mean,
\* std) of the aggregated grid, computed before the forward.
C16_ForwardCarriesStatistics ==
    Flushed => "stats" \in DOMAIN call.posted[1]

\* C15: while the POST of a flush is in flight the buffer is already
\* empty.
C15_BufferClearedBeforeForward == Sending => telemetry_buffer = <<>>

\* store_telemetry validated its input
StoreValidated == stored.outcome \in {"stored", "db_error"}

\* C13: every Temperatures string of exactly Rows * Cols numbers passes
\* validation, and the grid is its row-major reshape: the value at input
\* index i is at row i div Cols, column i mod Cols, in a Rows x Cols grid.
C13_RowMajorReshape ==
    stored.args.temperatures \in ValidTemps =>
        /\ StoreValidated
        /\ Len(stored.grid) = Rows
        /\ \A r \in 1..Rows : Len(stored.grid[r]) = Cols
        /\ \A i \in 0..(GridCells - 1) :
              stored.grid[(i \div Cols) + 1][(i % Cols) + 1]
                = GridOf(stored.args.temperatures)[i + 1]

C13_Witness ==
    /\ stored.outcome = "stored"
    /\ stored.args.temperatures = TempsB
    /\ Len(db.rows) = 1

\* the square of a float written as by Sqrt
Squared(x) ==
    IF "val" \in DOMAIN x THEN <<x.val[1] * x.val[1], x.val[2] * x.val[2]>>
    ELSE x.sqrt_of

\* the rational v is the population variance of xs:
\* (N * sum of squares - square of the sum) / N^2
IsPopulationVariance(v, xs) ==
    /\ v[2] > 0
    /\ v[1] * Len(xs) * Len(xs)
         = v[2] * (Len(xs) * Sum([k \in 1..Len(xs) |-> xs[k] * xs[k]])
                    - Sum(xs) * Sum(xs))

\* st holds the statistics of the numbers xs
IsSummaryOf(st, xs) ==
    /\ \E k \in 1..Len(xs) : st.min = Float(xs[k])
    /\ \A k \in 1..Len(xs) : st.min.val <= xs[k]
    /\ \E k \in 1..Len(xs) : st.max = Float(xs[k])
    /\ \A k \in 1..Len(xs) : st.max.val >= xs[k]
    /\ IsMean(st.mean.val, xs)
    /\ IsPopulationVariance(Squared(st.std), xs)
    /\ (\A k \in 1..Len(xs) : xs[k] = xs[1]) =>
          /\ st.min = Float(xs[1])
          /\ st.max = Float(xs[1])
          /\ st.mean = Float(<<xs[1], 1>>)
          /\ st.std = Float(<<0, 1>>)

\* C14: the statistics computed for a snapshot, and stored in its row, are
\* the minimum, maximum and arithmetic mean of all cells and the population
\* standard deviation; a uniform grid of c gives min = max = mean = c and
\* std = 0.
C14_StatisticsOfAllCells ==
    StoreValidated =>
        /\ IsSummaryOf(stored.stats, GridOf(stored.args.temperatures))
        /\ stored.outcome = "stored" =>
              LET row == db.rows[Len(db.rows)]
              IN  /\ row.min_temp = stored.stats.min
                  /\ row.max_temp = stored.stats.max
                  /\ row.mean_temp = stored.stats.mean
                  /\ row.std_temp = stored.stats.std

C14_Witness ==
    /\ stored.outcome = "stored"
    /\ stored.args.temperatures = TempsB
    /\ stored.stats.std # Float(<<0, 1>>)
    /\ Len(db.rows) = 2
    /\ db.rows[1].std_temp = Float(<<0, 1>>)

\* the ids of the committed rows
CommittedIds == {db.rows[k].id : k \in 1..Len(db.rows)}

\* a raw snapshot the validator accepts: no field absent, Temperatures of
\* exactly Rows * Cols numbers
ValidSnapshot(args) == args.temperatures \in ValidTemps /\ ~AbsentField(args)

\* C17: in the direct-to-database variant a trigger inserts a record
\* exactly when it carries a valid snapshot and the database calls succeed,
\* the record carries the id the call returned, and LastRecordID is
\* written that id, or 0 when nothing was inserted.
C17_RecordIffValidSnapshot ==
    /\ stored.outcome = "stored"
          <=> (ValidSnapshot(stored.args) /\ stored.fault = "none"
                 /\ stored.outcome # "none")
    /\ stored.outcome = "stored" => db.rows[Len(db.rows)].id = stored.ret.val
    /\ written.outcome = "stored" => written.value.val \in CommittedIds
    /\ written.outcome = "failed" => written.value = Int_(0)

\* C18: every snapshot a trigger handler passes to process_telemetry is
\* one client's complete submission.
C18_SnapshotIsOneSubmission ==
    call.outcome # "none" => SubmissionOf(call.args) # 0

\* C19: every write of True to TriggerStorage by a client starts exactly
\* one handler run.
C19_EveryTriggerIsHandled ==
    [][\A k \in Clients :
          (clients[k].pc = "TriggerStorage" /\ clients'[k].pc = "await_reset")
              => BagCardinality(handlers') = BagCardinality(handlers) + 1]_vars

\* C20: when a client sees the trigger back at False after its submission,
\* LastRecordID holds the result of the call made with that submission.
C20_ObservedResultIsOwn ==
    \A k \in Clients : clients[k].pc = "done" => clients[k].observed = k

\* C21: between calls of store_telemetry no connection it opened is open:
\* every call has closed its connection before it returned, on the success
\* path and on every error path.
C21_ConnectionsClosedOnReturn == db.open = 0

====
